---- MODULE Spec2Model ----
(***************************************************************************)
(* crabtap: the interactive tap-tempo session of src/main.rs (main, Bpms,  *)
(* AudioStream, RAIITerminal, play_keys, confirm_keys) over the tag        *)
(* abstraction of src/file.rs (Mp3, Flac).                                 *)
(*                                                                         *)
(* Representation of the program's values:                                 *)
(*  - Option<T> is a sequence of length 0 (None) or 1 (Some(x)).           *)
(*  - u32 is a record [hi, lo] of two 16-bit halves (value hi*2^16 + lo):  *)
(*    the checker's integers are narrower than u32, and the halves keep    *)
(*    the width exact (wrap-around is hi % 2^16).  A "wide" value is the   *)
(*    same record with hi unbounded: the mathematical result before it is  *)
(*    stored in a u32.                                                     *)
(*  - f64 samples are integers (the tap intervals used divide 60000, so    *)
(*    every finite f64 here is an exactly represented integer) or F64Inf.  *)
(*  - a String is a sequence of one-character strings.                     *)
(***************************************************************************)
EXTENDS Integers, Sequences, FiniteSets, TLC

None == << >>
Some(x) == << x >>
IsSome(o) == Len(o) = 1
Unwrap(o) == o[1]

----------------------------------------------------------------------------
(* u32 arithmetic, as main.rs uses it (lines 430-437) *)

Half == 2^16

U32(n) == [hi |-> n \div Half, lo |-> n % Half]
U32Max == [hi |-> Half - 1, lo |-> Half - 1]
IsU32(w) == w.hi < Half

\* a > b on wide values
Gt(a, b) == a.hi > b.hi \/ (a.hi = b.hi /\ a.lo > b.lo)

\* v * 10 + d as a mathematical (wide) value
WideMul10Add(v, d) ==
    LET l == v.lo * 10 + d
    IN  [hi |-> v.hi * 10 + l \div Half, lo |-> l % Half]

\* what a release build stores: the wide value modulo 2^32
Wrap(w) == [hi |-> w.hi % Half, lo |-> w.lo]

\* v / 10 (integer division)
Div10(v) ==
    LET r == (v.hi % 10) * Half + v.lo
    IN  [hi |-> v.hi \div 10, lo |-> r \div 10]

Mod10(v) == ((v.hi % 10) * Half + v.lo) % 10

----------------------------------------------------------------------------
(* char::to_digit(10) and its inverse (main.rs line 432; the decimal        *)
(* formatting and parsing of file.rs)                                      *)

DigitChars == << "0", "1", "2", "3", "4", "5", "6", "7", "8", "9" >>

\* c.to_digit(10): Some(d) for a decimal digit, None for any other character
ToDigit(c) ==
    IF \E i \in 1..Len(DigitChars) : DigitChars[i] = c
    THEN Some((CHOOSE i \in 1..Len(DigitChars) : DigitChars[i] = c) - 1)
    ELSE None

\* u32::to_string (file.rs lines 47, 85)
RECURSIVE U32ToString(_)
U32ToString(v) ==
    IF v.hi = 0 /\ v.lo < 10 THEN << DigitChars[v.lo + 1] >>
    ELSE Append(U32ToString(Div10(v)), DigitChars[Mod10(v) + 1])

RECURSIVE ParseFrom(_, _)
\* the digits of s appended to acc; None on a non-digit or on overflow
ParseFrom(acc, s) ==
    IF s = << >> THEN Some(acc)
    ELSE IF ToDigit(Head(s)) = None THEN None
    ELSE LET w == WideMul10Add(acc, Unwrap(ToDigit(Head(s))))
         IN  IF IsU32(w) THEN ParseFrom(w, Tail(s)) ELSE None

\* str::parse::<u32>().ok() (file.rs lines 29, 66)
ParseU32(s) == IF s = << >> THEN None ELSE ParseFrom(U32(0), s)

----------------------------------------------------------------------------
(* file.rs: a file on disk, and the Track (Mp3 / Flac) built from it.      *)
(* A file is [ext, tag, field]: its extension; tag = "none" (no tag        *)
(* container: id3 reports ErrorKind::NoTag), "ok" (a readable container)   *)
(* or "corrupt" (any other read error); field = the text of the TBPM frame *)
(* (mp3) or of the first BPM vorbis comment (flac), None when absent.      *)
(* A Track is [kind, bpm]: the variant and the cached BPM; its path is its *)
(* position in the input list.                                             *)

Ok(x) == [ok |-> TRUE, val |-> x]
Err(e) == [ok |-> FALSE, val |-> e]

\* tag.get(..).and_then(text).and_then(parse().ok()) of a readable container
FieldBpm(file) ==
    IF IsSome(file.field) THEN ParseU32(Unwrap(file.field)) ELSE None

Mp3New(file) ==
    IF file.tag = "corrupt" THEN Err("TagReadError")
    ELSE Ok([kind |-> "mp3",
             bpm  |-> IF file.tag = "ok" THEN FieldBpm(file) ELSE None])

FlacNew(file) ==
    IF file.tag # "ok" THEN Err("TagReadError")
    ELSE Ok([kind |-> "flac", bpm |-> FieldBpm(file)])

\* the closure of main.rs lines 252-260
TrackNew(file) ==
    CASE file.ext = "mp3"  -> Mp3New(file)
      [] file.ext = "flac" -> FlacNew(file)
      [] OTHER             -> Err("UnsupportedFileType")

\* The environment of one set_bpm call: "ok", or the I/O error it injects.
IoOutcomes == {"ok", "read_err", "write_err"}

\* set_bpm returns [ok, track, file]: its result, the Track and the file after it.
\* Both variants store the cache first, then re-read the container, set the
\* field and write the container back; `?` returns at the first failure.
Mp3SetBpm(track, file, bpm, io) ==
    LET cached == [track EXCEPT !.bpm = Some(bpm)]
    IN  IF io = "read_err" \/ file.tag # "ok"
        THEN [ok |-> FALSE, track |-> cached, file |-> file]
        ELSE IF io = "write_err"
        THEN [ok |-> FALSE, track |-> cached, file |-> file]
        ELSE [ok |-> TRUE, track |-> cached,
              file |-> [file EXCEPT !.field = Some(U32ToString(bpm))]]

FlacSetBpm(track, file, bpm, io) ==
    LET cached == [track EXCEPT !.bpm = Some(bpm)]
    IN  IF io = "read_err" \/ file.tag # "ok"
        THEN [ok |-> FALSE, track |-> cached, file |-> file]
        ELSE IF io = "write_err"
        THEN [ok |-> FALSE, track |-> cached, file |-> file]
        ELSE [ok |-> TRUE, track |-> cached,
              file |-> [file EXCEPT !.field = Some(U32ToString(bpm))]]

\* dyn Music dispatch
SetBpm(track, file, bpm, io) ==
    IF track.kind = "mp3" THEN Mp3SetBpm(track, file, bpm, io)
    ELSE FlacSetBpm(track, file, bpm, io)

----------------------------------------------------------------------------
(* main.rs: Bpms, the window of the last 10 samples *)

Capacity == 10

\* f64 +infinity (60000.0 / 0.0); larger than any finite sum of the model
F64Inf == 2^30

F64Add(a, b) == IF a = F64Inf \/ b = F64Inf THEN F64Inf ELSE a + b

\* (sum / n as f64) as u32: the cast truncates toward zero and saturates, so a
\* negative quotient gives 0 and +infinity gives u32::MAX.  For the integer
\* sums of the model the truncated f64 quotient is the integer quotient.
MeanAsU32(sum, n) ==
    IF sum = F64Inf THEN U32Max
    ELSE IF sum <= 0 THEN U32(0)
    ELSE U32(sum \div n)

BpmsNew == [bpms |-> [i \in 0..(Capacity - 1) |-> 0], next |-> 0, size |-> 0]

BpmsPush(b, bpm) ==
    [bpms |-> [b.bpms EXCEPT ![b.next] = bpm],
     next |-> (b.next + 1) % Capacity,
     size |-> IF b.size < Capacity THEN b.size + 1 ELSE b.size]

RECURSIVE SumTake(_, _)
\* bpms.iter().take(k).sum::<f64>()
SumTake(arr, k) ==
    IF k = 0 THEN 0 ELSE F64Add(SumTake(arr, k - 1), arr[k - 1])

BpmsAvg(b) ==
    IF b.size = 0 THEN None
    ELSE Some(MeanAsU32(SumTake(b.bpms, b.size), b.size))

\* 60000.0 / (diff.num_milliseconds() as f64), for ms = 0 or ms dividing 60000
TapSample(ms) ==
    IF ms = 0 THEN F64Inf
    ELSE IF ms < 0 THEN 0 - (60000 \div (0 - ms))
    ELSE 60000 \div ms

----------------------------------------------------------------------------
(* main.rs: the key maps.  A key event is [code, mods]; mods is TRUE when  *)
(* key.modifiers != KeyModifiers::empty().                                 *)

\* a variant of play_keys without the modifier check of lines 54-56
play_keys_any_modifiers(key) ==
    CASE key.code = " "                -> Some("Tap")
      [] key.code \in {"Esc", "q"}     -> Some("Quit")
      [] key.code = "r"                -> Some("Restart")
      [] key.code = "Enter"            -> Some("Confirm")
      [] key.code \in {"Up", "k"}      -> Some("Up")
      [] key.code \in {"Down", "j"}    -> Some("Down")
      [] key.code = "m"                -> Some("Manual")
      [] OTHER                         -> None

play_keys(key) ==
    IF key.mods THEN None
    ELSE CASE key.code = " "                -> Some("Tap")
           [] key.code \in {"Esc", "q"}     -> Some("Quit")
           [] key.code = "r"                -> Some("Restart")
           [] key.code = "Enter"            -> Some("Confirm")
           [] key.code \in {"Up", "k"}      -> Some("Up")
           [] key.code \in {"Down", "j"}    -> Some("Down")
           [] key.code = "m"                -> Some("Manual")
           [] OTHER                         -> None

confirm_keys(key) ==
    IF key.mods THEN None
    ELSE CASE key.code = "y" -> Some("Yes")
           [] key.code = "n" -> Some("No")
           [] OTHER          -> None

----------------------------------------------------------------------------
(* Bounds and inputs of the model *)

\* Most samples pushed into one estimator before Tap is no longer offered.
MaxTaps == 2

\* A run is followed until this many tags are written: after the last of them
\* (and the start of the next track) the only key offered is a Quit key.
MaxWrites == 1

\* The values chrono::Utc::now() takes, in milliseconds.  It is the wall
\* clock: it may repeat a value (two taps in one millisecond) or step back.
Clock == {0, 500}

Mp3Untagged  == [ext |-> "mp3",  tag |-> "none",    field |-> None]
Mp3NoField   == [ext |-> "mp3",  tag |-> "ok",      field |-> None]
Mp3Tagged    == [ext |-> "mp3",  tag |-> "ok",      field |-> Some(<< "9", "9" >>)]
Mp3Corrupt   == [ext |-> "mp3",  tag |-> "corrupt", field |-> None]
FlacNoField  == [ext |-> "flac", tag |-> "ok",      field |-> None]
FlacJunk     == [ext |-> "flac", tag |-> "ok",      field |-> Some(<< "x" >>)]
WavFile      == [ext |-> "wav",  tag |-> "none",    field |-> None]

\* The input lists (args.inputs, as the files they name; the paths are distinct).
Playlists ==
    { << >>,
      << Mp3Untagged >>,
      << FlacNoField >>,
      << Mp3Tagged, FlacJunk, Mp3NoField >>,
      << Mp3Corrupt >>,
      << FlacNoField, WavFile >> }

\* The numbers the user types in manual entry: every digit key typed extends
\* the accumulated value towards one of these (or is typed when the guard of
\* line 433 already holds).  The long ones, up to u32::MAX and to
\* 4294967296 = u32::MAX + 1 = [hi 65536, lo 0], are typed only before the
\* first tap of a track and before the first tag write of the run.
ShortScripts == { U32(128) }
LongScripts == { U32Max, [hi |-> Half, lo |-> 0] }

RECURSIVE Prefixes(_)
Prefixes(w) ==
    IF w.hi = 0 /\ w.lo = 0 THEN {} ELSE {w} \cup Prefixes(Div10(w))

ShortPrefixes == UNION { Prefixes(w) : w \in ShortScripts }
LongPrefixes == UNION { Prefixes(w) : w \in LongScripts }

KeyCodes ==
    { " ", "Esc", "q", "r", "Enter", "Up", "k", "Down", "j", "m", "y", "n",
      "Backspace", "x" } \cup { DigitChars[i] : i \in 1..Len(DigitChars) }

\* Key events: every code without modifiers, some with a modifier held.
Keys ==
    { [code |-> c, mods |-> FALSE] : c \in KeyCodes } \cup
    { [code |-> c, mods |-> TRUE] : c \in { " ", "Enter", "y", "m", "1" } }

\* The handling of key event k as `name`; the digit is kept for a manual digit.
Cmd(name, k) ==
    [name |-> name, mods |-> k.mods,
     digit |-> IF name = "Digit" THEN ToDigit(k.code) ELSE None]

NoCmd == [name |-> "", mods |-> FALSE, digit |-> None]

----------------------------------------------------------------------------
(* The state of main() *)

VARIABLES
    confirm,        \* args.confirm
    disk,           \* the files named by args.inputs, in order
    pc,             \* where main() is: "start", "load", "play0", "term",
                    \*   "loop" (blocked on the next key), "assign" (line
                    \*   `_player = audio_stream.play(..)?`: play() has returned,
                    \*   the old Sink not yet dropped), "ret" (main returns:
                    \*   result is set, locals not yet dropped), "exit"
    result,         \* "none", "ok" (exit code 0), "err" (Err returned), "panic"
    inputs,         \* Vec<Box<dyn Music>>
    selected,       \* table_state.selected().unwrap()
    player,         \* _player: Option of the Sink held
    audio,          \* the Sinks alive (playing): each [gen, track]
    last_press_at,  \* Option of a Clock value
    bpms,           \* Bpms
    state,          \* State
    raw,            \* the terminal is in raw mode
    terminal,       \* a RAIITerminal value exists
    cmd,            \* what the last key event read was handled as: [name,
                    \*   mods, digit] (NoCmd: none since start)
    set_calls,      \* the set_bpm calls made by the last command, in order:
                    \*   [idx, bpm, io, before (the file), cached (the
                    \*   Track's BPM) before the call, ok (its result)]
    pushed,         \* the samples pushed into bpms since Bpms::new(), in order
    writes          \* successful tag writes so far

vars == << confirm, disk, pc, result, inputs, selected, player, audio,
           last_press_at, bpms, state, raw, terminal, cmd, set_calls, pushed,
           writes >>

Playing == [tag |-> "Playing"]
Finished(bpm) == [tag |-> "Finished", bpm |-> bpm]
Manual(manual_bpm) == [tag |-> "Manual", manual_bpm |-> manual_bpm]

Init ==
    /\ confirm \in BOOLEAN
    /\ disk \in Playlists
    /\ pc = "start"
    /\ result = "none"
    /\ inputs = << >>
    /\ selected = 0
    /\ player = None
    /\ audio = {}
    /\ last_press_at = None
    /\ bpms = BpmsNew
    /\ state = Playing
    /\ raw = FALSE
    /\ terminal = FALSE
    /\ cmd = NoCmd
    /\ set_calls = << >>
    /\ pushed = << >>
    /\ writes = 0

\* `?` on an Err: main returns it
Fail == pc' = "ret" /\ result' = "err"

\* a variant whose Sink plays the track selected before the command
NewSinkStale(track) ==
    [gen |-> IF player = None THEN 0 ELSE 1 - Unwrap(player).gen, track |-> selected]

\* A Sink differs from the one it replaces: gen is its identity (modulo 2).
NewSink(track) ==
    [gen |-> IF player = None THEN 0 ELSE 1 - Unwrap(player).gen, track |-> track]

\* AudioStream::play(&inputs[track].path()): Ok(sink), the sink playing, or Err
\* (Sink::try_new, File::open or Decoder::new_looped failed; nothing plays).
Play(track, ok) ==
    IF ok THEN audio' = audio \cup { NewSink(track) } ELSE audio' = audio

----------------------------------------------------------------------------
(* main(): start-up, lines 245-274 *)

\* line 245: OutputStream::try_default()?
OpenStream ==
    /\ pc = "start"
    /\ \E ok \in BOOLEAN :
         IF ok THEN pc' = "load" /\ result' = result ELSE Fail
    /\ UNCHANGED << confirm, disk, inputs, selected, player, audio,
                    last_press_at, bpms, state, raw, terminal, cmd, set_calls,
                    pushed, writes >>

\* lines 248-265: build the Tracks (the first Err is returned); an empty list
\* returns Ok(())
LoadInputs ==
    /\ pc = "load"
    /\ LET rs == [i \in 1..Len(disk) |-> TrackNew(disk[i])]
       IN  IF \E i \in 1..Len(disk) : ~rs[i].ok
           THEN Fail /\ inputs' = inputs
           ELSE /\ inputs' = [i \in 1..Len(disk) |-> rs[i].val]
                /\ IF Len(disk) = 0
                   THEN pc' = "ret" /\ result' = "ok"
                   ELSE pc' = "play0" /\ result' = result
    /\ UNCHANGED << confirm, disk, selected, player, audio, last_press_at,
                    bpms, state, raw, terminal, cmd, set_calls, pushed, writes >>

\* lines 266-272: select track 0 and start it
FirstPlay ==
    /\ pc = "play0"
    /\ selected' = 0
    /\ \E ok \in BOOLEAN :
         /\ Play(0, ok)
         /\ IF ok
            THEN player' = Some(NewSink(0)) /\ pc' = "term" /\ result' = result
            ELSE player' = player /\ Fail
    /\ last_press_at' = None
    /\ bpms' = BpmsNew
    /\ pushed' = << >>
    /\ state' = Playing
    /\ UNCHANGED << confirm, disk, inputs, raw, terminal, cmd, set_calls, writes >>

\* What RAIITerminal::new() can do: fail in enable_raw_mode ("raw_err"), in
\* EnterAlternateScreen ("screen_err"), in Terminal::new ("term_err"), or succeed.
TerminalOutcomes == {"raw_err", "screen_err", "term_err", "ok"}

\* line 274 with lines 92-100: raw mode is on from line 93; the RAIITerminal
\* value (whose Drop turns it off) exists only when line 97 is reached
RAIITerminalNew ==
    /\ pc = "term"
    /\ \E o \in TerminalOutcomes :
         /\ raw' = (o # "raw_err")
         /\ terminal' = (o = "ok")
         /\ IF o = "ok" THEN pc' = "loop" /\ result' = result ELSE Fail
    /\ UNCHANGED << confirm, disk, inputs, selected, player, audio,
                    last_press_at, bpms, state, cmd, set_calls, pushed, writes >>

----------------------------------------------------------------------------
(* main(): leaving.  The locals are dropped in reverse order of declaration: *)
(* terminal (lines 110-120: raw mode off), then _player (the Sink stops),    *)
(* then the rest, which the model shows as their initial values.             *)

Return ==
    /\ pc = "ret"
    /\ pc' = "exit"
    /\ raw' = IF terminal THEN FALSE ELSE raw
    /\ terminal' = FALSE
    /\ player' = None
    /\ audio' = {}
    /\ inputs' = << >>
    /\ selected' = 0
    /\ last_press_at' = None
    /\ bpms' = BpmsNew
    /\ pushed' = << >>
    /\ state' = Playing
    /\ UNCHANGED << confirm, disk, result, cmd, set_calls, writes >>

----------------------------------------------------------------------------
(* main(): the pieces the handlers share *)

\* a variant without the wrap: the last track is followed by itself
NextIdxNoWrap(i, n) == IF i + 1 < n THEN i + 1 ELSE i

\* (i + 1) % inputs.len()
NextIdx(i, n) == (i + 1) % n

\* a variant without the wrap: the first track is preceded by itself
PrevIdxNoWrap(i, n) == IF i = 0 THEN 0 ELSE i - 1

\* (i + inputs.len() - 1) % inputs.len()
PrevIdx(i, n) == (i + n - 1) % n

\* a variant that guards the empty list instead of the single track
SingleTrackWrongLen(n) == n = 0

\* `if inputs.len() == 1 { continue; }` of Up and Down
SingleTrack(n) == n = 1

\* a variant that reviews whatever the flag says
AlwaysReview == TRUE

\* `if args.confirm` of Confirm
NeedsReview == confirm

\* `_player = audio_stream.play(&inputs[track].path())?;` up to play()'s return:
\* the new Sink plays, _player still holds the old one
StartPlay(track) ==
    \E ok \in BOOLEAN :
      /\ Play(track, ok)
      /\ IF ok THEN pc' = "assign" /\ result' = result ELSE Fail

\* a variant of the assignment without the two statements after it: the
\* timestamp and the estimator are kept
AssignKeepsEstimator ==
    /\ pc = "assign"
    /\ LET new == CHOOSE s \in audio : Some(s) # player
       IN  player' = Some(new) /\ audio' = { new }
    /\ pc' = "loop"
    /\ UNCHANGED << confirm, disk, result, inputs, selected, state, raw,
                    terminal, cmd, set_calls, writes, last_press_at, bpms,
                    pushed >>

\* the rest of that statement and the two after it: the assignment drops the
\* old Sink; last_press_at = None; bpms = Bpms::new()
Assign ==
    /\ pc = "assign"
    /\ LET new == CHOOSE s \in audio : Some(s) # player
       IN  player' = Some(new) /\ audio' = { new }
    /\ last_press_at' = None
    /\ bpms' = BpmsNew
    /\ pushed' = << >>
    /\ pc' = "loop"
    /\ UNCHANGED << confirm, disk, result, inputs, selected, state, raw,
                    terminal, cmd, set_calls, writes >>

\* a variant that drops the `?` of set_bpm: after a failed write it advances
\* and starts the next track all the same
WriteAdvanceGoesOn(bpm, next) ==
    \E io \in IoOutcomes :
      LET r == SetBpm(inputs[selected + 1], disk[selected + 1], bpm, io)
          call == [idx |-> selected, bpm |-> bpm, io |-> io,
                   before |-> disk[selected + 1],
                   cached |-> inputs[selected + 1].bpm, ok |-> r.ok]
          input_idx == NextIdx(selected, Len(inputs))
      IN  /\ inputs' = [inputs EXCEPT ![selected + 1] = r.track]
          /\ disk' = [disk EXCEPT ![selected + 1] = r.file]
          /\ set_calls' = << call >>
          /\ writes' = writes + 1
          /\ state' = next
          /\ selected' = input_idx
          /\ StartPlay(input_idx)

\* inputs[selected].set_bpm(bpm)?, then the advance and the start of the next
\* track (lines 294-298, 372-376, 421-425); `next` is the State on success
WriteAdvance(bpm, next) ==
    \E io \in IoOutcomes :
      LET r == SetBpm(inputs[selected + 1], disk[selected + 1], bpm, io)
          call == [idx |-> selected, bpm |-> bpm, io |-> io,
                   before |-> disk[selected + 1],
                   cached |-> inputs[selected + 1].bpm, ok |-> r.ok]
          input_idx == NextIdx(selected, Len(inputs))
      IN  /\ inputs' = [inputs EXCEPT ![selected + 1] = r.track]
          /\ disk' = [disk EXCEPT ![selected + 1] = r.file]
          /\ set_calls' = << call >>
          /\ IF r.ok
             THEN /\ writes' = writes + 1
                  /\ state' = next
                  /\ selected' = input_idx
                  /\ StartPlay(input_idx)
             ELSE /\ Fail
                  /\ UNCHANGED << writes, state, selected, audio >>

\* a step that handles key k as `name` and makes no set_bpm call
Reads(k, name) == cmd' = Cmd(name, k) /\ set_calls' = << >>

----------------------------------------------------------------------------
(* main(): State::Playing, lines 278-348 *)

\* the user goes on typing
Typing == writes < MaxWrites

InPlaying == pc = "loop" /\ state = Playing
Command(k, c) == play_keys(k) = Some(c)

\* terminal.draw(..)? or crossterm::event::read()? returns an Err (in any State)
IoError ==
    /\ pc = "loop"
    /\ Fail
    /\ cmd' = [NoCmd EXCEPT !.name = "IoError"]
    /\ set_calls' = << >>
    /\ UNCHANGED << confirm, disk, inputs, selected, player, audio,
                    last_press_at, bpms, state, raw, terminal, pushed, writes >>

\* on_keypress: a key that maps to no command is skipped (lines 141-148)
IgnoredKey ==
    /\ pc = "loop"
    /\ Typing
    /\ state.tag \in {"Playing", "Finished"}
    /\ \E k \in Keys :
         /\ IF state = Playing THEN play_keys(k) = None ELSE confirm_keys(k) = None
         /\ Reads(k, "Ignored")
    /\ UNCHANGED << confirm, disk, pc, result, inputs, selected, player, audio,
                    last_press_at, bpms, state, raw, terminal, pushed, writes >>

Quit ==
    /\ InPlaying
    /\ \E k \in Keys : Command(k, "Quit") /\ Reads(k, "Quit")
    /\ pc' = "ret"
    /\ result' = "ok"
    /\ UNCHANGED << confirm, disk, inputs, selected, player, audio,
                    last_press_at, bpms, state, raw, terminal, pushed, writes >>

\* lines 289-304
Confirm ==
    /\ InPlaying
    /\ Typing
    /\ \E k \in Keys :
         /\ Command(k, "Confirm")
         /\ cmd' = Cmd("Confirm", k)
         /\ IF BpmsAvg(bpms) = None
            THEN /\ set_calls' = << >>
                 /\ UNCHANGED << disk, pc, result, inputs, selected, audio,
                                 state, writes >>
            ELSE IF NeedsReview
            THEN /\ state' = Finished(Unwrap(BpmsAvg(bpms)))
                 /\ set_calls' = << >>
                 /\ UNCHANGED << disk, pc, result, inputs, selected, audio,
                                 writes >>
            ELSE WriteAdvance(Unwrap(BpmsAvg(bpms)), Playing)
    /\ UNCHANGED << confirm, player, last_press_at, bpms, raw, terminal, pushed >>

\* lines 305-310
Restart ==
    /\ InPlaying
    /\ Typing
    /\ \E k \in Keys : Command(k, "Restart") /\ Reads(k, "Restart")
    /\ StartPlay(selected)
    /\ UNCHANGED << confirm, disk, inputs, selected, player, last_press_at,
                    bpms, state, raw, terminal, pushed, writes >>

\* lines 311-319
Tap ==
    /\ InPlaying
    /\ Typing
    /\ IF last_press_at = None THEN TRUE ELSE Len(pushed) < MaxTaps
    /\ \E k \in Keys : Command(k, "Tap") /\ Reads(k, "Tap")
    /\ \E now \in Clock :
         /\ IF IsSome(last_press_at)
            THEN LET bpm == TapSample(now - Unwrap(last_press_at))
                 IN  bpms' = BpmsPush(bpms, bpm) /\ pushed' = Append(pushed, bpm)
            ELSE bpms' = bpms /\ pushed' = pushed
         /\ last_press_at' = Some(now)
    /\ UNCHANGED << confirm, disk, pc, result, inputs, selected, player, audio,
                    state, raw, terminal, writes >>

\* lines 320-331
Up ==
    /\ InPlaying
    /\ Typing
    /\ \E k \in Keys : Command(k, "Up") /\ Reads(k, "Up")
    /\ IF SingleTrack(Len(inputs))
       THEN UNCHANGED << pc, result, selected, audio >>
       ELSE LET input_idx == PrevIdx(selected, Len(inputs))
            IN  selected' = input_idx /\ StartPlay(input_idx)
    /\ UNCHANGED << confirm, disk, inputs, player, last_press_at, bpms, state,
                    raw, terminal, pushed, writes >>

\* lines 332-342
Down ==
    /\ InPlaying
    /\ Typing
    /\ \E k \in Keys : Command(k, "Down") /\ Reads(k, "Down")
    /\ IF SingleTrack(Len(inputs))
       THEN UNCHANGED << pc, result, selected, audio >>
       ELSE LET input_idx == NextIdx(selected, Len(inputs))
            IN  selected' = input_idx /\ StartPlay(input_idx)
    /\ UNCHANGED << confirm, disk, inputs, player, last_press_at, bpms, state,
                    raw, terminal, pushed, writes >>

\* lines 344-346
EnterManual ==
    /\ InPlaying
    /\ Typing
    /\ \E k \in Keys : Command(k, "Manual") /\ Reads(k, "Manual")
    /\ state' = Manual(U32(0))
    /\ UNCHANGED << confirm, disk, pc, result, inputs, selected, player, audio,
                    last_press_at, bpms, raw, terminal, pushed, writes >>

----------------------------------------------------------------------------
(* main(): State::Finished, lines 349-384 *)

InFinished == pc = "loop" /\ state.tag = "Finished" /\ Typing

\* lines 371-379
Yes ==
    /\ InFinished
    /\ \E k \in Keys : confirm_keys(k) = Some("Yes") /\ cmd' = Cmd("Yes", k)
    /\ WriteAdvance(state.bpm, Playing)
    /\ UNCHANGED << confirm, player, last_press_at, bpms, raw, terminal, pushed >>

\* a variant of No that also starts a fresh estimate
NoResetsEstimator ==
    /\ InFinished
    /\ \E k \in Keys : confirm_keys(k) = Some("No") /\ Reads(k, "No")
    /\ state' = Playing
    /\ last_press_at' = None
    /\ bpms' = BpmsNew
    /\ pushed' = << >>
    /\ UNCHANGED << confirm, disk, pc, result, inputs, selected, player, audio,
                    raw, terminal, writes >>

\* lines 380-382
No ==
    /\ InFinished
    /\ \E k \in Keys : confirm_keys(k) = Some("No") /\ Reads(k, "No")
    /\ state' = Playing
    /\ UNCHANGED << confirm, disk, pc, result, inputs, selected, player, audio,
                    last_press_at, bpms, raw, terminal, pushed, writes >>

----------------------------------------------------------------------------
(* main(): State::Manual, lines 385-451 *)

InManual == pc = "loop" /\ state.tag = "Manual" /\ Typing

\* lines 411-413: a key with a modifier is skipped
ManualModifier ==
    /\ InManual
    /\ \E k \in Keys : k.mods /\ Reads(k, "Ignored")
    /\ UNCHANGED << confirm, disk, pc, result, inputs, selected, player, audio,
                    last_press_at, bpms, state, raw, terminal, pushed, writes >>

\* lines 416-419
ManualCancel ==
    /\ InManual
    /\ \E k \in Keys : ~k.mods /\ k.code \in {"Esc", "m"} /\ Reads(k, "Cancel")
    /\ state' = Playing
    /\ UNCHANGED << confirm, disk, pc, result, inputs, selected, player, audio,
                    last_press_at, bpms, raw, terminal, pushed, writes >>

\* a variant of Enter that writes 0 whatever was typed
ManualEnterWritesZero ==
    /\ InManual
    /\ \E k \in Keys : ~k.mods /\ k.code = "Enter" /\ cmd' = Cmd("Enter", k)
    /\ WriteAdvance(U32(0), Playing)
    /\ UNCHANGED << confirm, player, last_press_at, bpms, raw, terminal, pushed >>

\* lines 420-429
ManualEnter ==
    /\ InManual
    /\ \E k \in Keys : ~k.mods /\ k.code = "Enter" /\ cmd' = Cmd("Enter", k)
    /\ WriteAdvance(state.manual_bpm, Playing)
    /\ UNCHANGED << confirm, player, last_press_at, bpms, raw, terminal, pushed >>

\* lines 430-443: new_bpm, as the mathematical value the expression denotes
ManualNewBpm(manual_bpm, code) ==
    IF code = "Backspace" THEN Div10(manual_bpm)
    ELSE IF IsSome(ToDigit(code))
    THEN IF Gt(manual_bpm, Div10(U32Max))
         THEN manual_bpm
         ELSE WideMul10Add(manual_bpm, Unwrap(ToDigit(code)))
    ELSE manual_bpm

\* The digit keys the user types (see ShortScripts, LongScripts).
Typed(manual_bpm, code) ==
    IF ToDigit(code) = None THEN TRUE
    ELSE IF Gt(manual_bpm, Div10(U32Max)) THEN TRUE
    ELSE LET w == WideMul10Add(manual_bpm, Unwrap(ToDigit(code)))
         IN  IF w \in ShortPrefixes THEN TRUE
             ELSE IF last_press_at = None /\ writes = 0 THEN w \in LongPrefixes
             ELSE FALSE

\* lines 445-447 for a key other than Esc, m and Enter.  A new_bpm that does
\* not fit u32 is an arithmetic overflow: a build with overflow checks panics
\* (the stack unwinds), a build without them stores the value modulo 2^32.
ManualStore(k, name) ==
    LET new_bpm == ManualNewBpm(state.manual_bpm, k.code)
    IN  /\ ~k.mods
        /\ Typed(state.manual_bpm, k.code)
        /\ Reads(k, name)
        /\ IF IsU32(new_bpm)
           THEN state' = Manual(new_bpm) /\ UNCHANGED << pc, result >>
           ELSE \E overflow_checks \in BOOLEAN :
                  IF overflow_checks
                  THEN pc' = "ret" /\ result' = "panic" /\ state' = state
                  ELSE state' = Manual(Wrap(new_bpm)) /\ UNCHANGED << pc, result >>
        /\ UNCHANGED << confirm, disk, inputs, selected, player, audio,
                        last_press_at, bpms, raw, terminal, pushed, writes >>

ManualBackspace ==
    InManual /\ \E k \in Keys : k.code = "Backspace" /\ ManualStore(k, "Backspace")

ManualDigit ==
    InManual /\ \E k \in Keys : IsSome(ToDigit(k.code)) /\ ManualStore(k, "Digit")

\* any other character or key: `_ => manual_bpm`
ManualOther ==
    InManual /\ \E k \in Keys :
        /\ k.code \notin {"Esc", "m", "Enter", "Backspace"}
        /\ ToDigit(k.code) = None
        /\ ManualStore(k, "Other")

----------------------------------------------------------------------------

Next ==
    \/ OpenStream \/ LoadInputs \/ FirstPlay \/ RAIITerminalNew
    \/ IoError \/ IgnoredKey
    \/ Quit \/ Confirm \/ Restart \/ Tap \/ Up \/ Down \/ EnterManual
    \/ Yes \/ No
    \/ ManualModifier \/ ManualCancel \/ ManualEnter
    \/ ManualBackspace \/ ManualDigit \/ ManualOther
    \/ Assign \/ Return

Spec == Init /\ [][Next]_vars

----------------------------------------------------------------------------
(* The claims *)

RECURSIVE SeqSum(_)
SeqSum(q) == IF q = << >> THEN 0 ELSE Head(q) + SeqSum(Tail(q))

\* the last min(Len(q), k) elements of q
LastOf(q, k) == IF Len(q) <= k THEN q ELSE SubSeq(q, Len(q) - k + 1, Len(q))

\* integer division truncating toward zero
TruncDiv(a, n) == IF a >= 0 THEN a \div n ELSE 0 - ((0 - a) \div n)

\* a step of the loop that handles a key as `name` in a State of tag `tag`
Handles(tag, name) == pc = "loop" /\ state.tag = tag /\ cmd'.name = name

\* C1 (as claimed): avg() is None exactly when nothing was pushed; otherwise
\* it is the arithmetic mean of the pushed samples (of the last 10 when more
\* were pushed), truncated toward zero.
C1_AvgIsTruncatedMean ==
    LET w == LastOf(pushed, Capacity)
    IN  IF pushed = << >> THEN BpmsAvg(bpms) = None
        ELSE /\ \A i \in 1..Len(w) : w[i] # F64Inf
             /\ TruncDiv(SeqSum(w), Len(w)) >= 0
             /\ BpmsAvg(bpms) = Some(U32(TruncDiv(SeqSum(w), Len(w))))

\* C2 (as claimed): no Digit step of manual entry computes a value above
\* u32::MAX: it neither panics nor wraps; the accumulated value is left as it
\* was or becomes exactly value * 10 + digit, and stays a u32.
C2_DigitNeverOverflows ==
    [][ Handles("Manual", "Digit") =>
          /\ result' # "panic"
          /\ state'.tag = "Manual"
          /\ IsU32(state'.manual_bpm)
          /\ \/ state'.manual_bpm = state.manual_bpm
             \/ state'.manual_bpm =
                  WideMul10Add(state.manual_bpm, Unwrap(cmd'.digit)) ]_vars

\* a file that carries no BPM tag: no tag container, or a container without
\* the field
NoPriorTag(file) ==
    file.tag = "none" \/ (file.tag = "ok" /\ file.field = None)

\* C3 (as claimed): a Track built from a file with no prior tag has bpm() =
\* None; set_bpm(v) on it succeeds (the environment injecting no I/O error),
\* and a Track rebuilt from the same path has bpm() = Some(v).
C3_RoundTrip ==
    /\ pc = "play0" =>
         \A i \in 1..Len(inputs) : NoPriorTag(disk[i]) => inputs[i].bpm = None
    /\ \A j \in 1..Len(set_calls) :
         LET c == set_calls[j]
         IN  (NoPriorTag(c.before) /\ c.io = "ok") =>
               /\ c.ok
               /\ TrackNew(disk[c.idx + 1]).ok
               /\ TrackNew(disk[c.idx + 1]).val.bpm = Some(c.bpm)

\* C4: with confirmation required, Confirm with an average a goes to
\* Finished{a} and calls no set_bpm; Yes in Finished{a} on track i calls
\* set_bpm exactly once, with a, on track i, and unless that call or the start
\* of the next track fails (main then returns the error) the file of track i
\* holds a, the State is Playing and the selected track is (i + 1) mod n.
C4_ConfirmThenYes ==
    [][ /\ ( /\ Handles("Playing", "Confirm")
             /\ confirm
             /\ IsSome(BpmsAvg(bpms)) ) =>
               /\ state' = Finished(Unwrap(BpmsAvg(bpms)))
               /\ set_calls' = << >>
               /\ pc' = "loop"
               /\ UNCHANGED << disk, inputs, selected, writes, audio >>
        /\ Handles("Finished", "Yes") =>
               /\ Len(set_calls') = 1
               /\ set_calls'[1].idx = selected
               /\ set_calls'[1].bpm = state.bpm
               /\ \A i \in 1..Len(disk) : i # selected + 1 => disk'[i] = disk[i]
               /\ IF pc' = "ret"
                  THEN result' = "err"
                  ELSE /\ pc' = "assign"
                       /\ set_calls'[1].ok
                       /\ FieldBpm(disk'[selected + 1]) = Some(state.bpm)
                       /\ state' = Playing
                       /\ selected' = (selected + 1) % Len(inputs) ]_vars

\* C4's case: Yes has written the last track of the three and the session is
\* back in Playing on track 0.
C4_Witness ==
    /\ pc = "loop" /\ state = Playing /\ cmd.name = "Yes"
    /\ Len(inputs) = 3 /\ selected = 0
    /\ Len(set_calls) = 1 /\ set_calls[1].idx = 2 /\ set_calls[1].ok
    /\ FieldBpm(disk[3]) = Some(set_calls[1].bpm)

\* C5: without confirmation required the State is never Finished, and Confirm
\* with an average a on track i calls set_bpm once, with a, on track i; unless
\* that call or the start of the next track fails, the file of track i holds
\* a, the State stays Playing and the selected track is (i + 1) mod n.
C5_DirectConfirm ==
    /\ [](~confirm => state.tag # "Finished")
    /\ [][ ( /\ Handles("Playing", "Confirm")
             /\ ~confirm
             /\ IsSome(BpmsAvg(bpms)) ) =>
               /\ Len(set_calls') = 1
               /\ set_calls'[1].idx = selected
               /\ set_calls'[1].bpm = Unwrap(BpmsAvg(bpms))
               /\ state' = Playing
               /\ IF pc' = "ret"
                  THEN result' = "err"
                  ELSE /\ pc' = "assign"
                       /\ set_calls'[1].ok
                       /\ FieldBpm(disk'[selected + 1]) = BpmsAvg(bpms)
                       /\ selected' = (selected + 1) % Len(inputs) ]_vars

\* C5's case: a direct Confirm has written track 0 of three and moved on to
\* track 1.
C5_Witness ==
    /\ ~confirm /\ pc = "loop" /\ state = Playing /\ cmd.name = "Confirm"
    /\ Len(inputs) = 3 /\ selected = 1
    /\ Len(set_calls) = 1 /\ set_calls[1].idx = 0 /\ set_calls[1].ok
    /\ inputs[1].bpm = Some(set_calls[1].bpm)

\* C6: on a single-track list Up and Down change nothing: the selected track,
\* the Sink held, the Sinks playing, the estimator and the last-tap timestamp
\* are as before, and the loop waits for the next key.
C6_SingleTrackNavNoOp ==
    [][ ( /\ pc = "loop" /\ state = Playing
          /\ cmd'.name \in {"Up", "Down"}
          /\ Len(inputs) = 1 ) =>
            /\ pc' = "loop"
            /\ state' = Playing
            /\ UNCHANGED << selected, player, audio, bpms, pushed, last_press_at,
                            inputs, disk >> ]_vars

\* C6's case: Down was pressed on a single track with a sample in the
\* estimator and a timestamp recorded.
C6_Witness ==
    /\ pc = "loop" /\ state = Playing /\ cmd.name = "Down"
    /\ Len(inputs) = 1
    /\ bpms.size > 0 /\ IsSome(last_press_at)

\* C7 (as claimed): in manual entry every accepted Digit(d) (the guard of line
\* 433 not holding) replaces the accumulated value v by v * 10 + d, and every
\* Backspace replaces it by v / 10.
C7_DigitAccumulation ==
    [][ /\ ( /\ Handles("Manual", "Digit")
             /\ ~Gt(state.manual_bpm, Div10(U32Max)) ) =>
               state' = Manual(WideMul10Add(state.manual_bpm, Unwrap(cmd'.digit)))
        /\ Handles("Manual", "Backspace") =>
               state' = Manual(Div10(state.manual_bpm)) ]_vars

\* C8 (as claimed): while the Tracks exist, each cached BPM is the BPM its
\* file holds (what the last read or successful write left there), and a
\* set_bpm call that fails leaves the cached BPM as it was before the call.
C8_CacheMatchesFile ==
    /\ pc \in {"play0", "term", "loop", "assign", "ret"} =>
         \A i \in 1..Len(inputs) : inputs[i].bpm = TrackNew(disk[i]).val.bpm
    /\ pc = "ret" =>
         \A j \in 1..Len(set_calls) :
           ~set_calls[j].ok =>
             inputs[set_calls[j].idx + 1].bpm = set_calls[j].cached

\* C9 (as claimed): the Sink held is stopped before the next one starts: at
\* no point are two Sinks playing.
C9_OneSinkAtATime == Cardinality(audio) <= 1

\* C10 (as claimed): no terminated run leaves the terminal in raw mode.
C10_RawModeReleased == pc = "exit" => ~raw

\* C11: in every State a key event with a modifier held is handled as no
\* command: the step makes no set_bpm call and leaves the State (with the
\* accumulated manual value), the selected track, the estimator, the last-tap
\* timestamp, the Sink held and playing, and every Track and file unchanged;
\* the loop waits for the next key.
C11_ModifierKeysIgnored ==
    [][ ( pc = "loop" /\ cmd'.mods ) =>
          /\ cmd'.name = "Ignored"
          /\ set_calls' = << >>
          /\ UNCHANGED << pc, result, state, selected, bpms, pushed,
                          last_press_at, player, audio, inputs, disk >> ]_vars

\* C11's case: a key with a modifier was read in manual entry with 128 typed
\* and a sample in the estimator.
C11_Witness ==
    /\ pc = "loop" /\ cmd.mods /\ cmd.name = "Ignored"
    /\ state = Manual(U32(128))
    /\ pushed # << >> /\ IsSome(last_press_at)

\* C12 (as claimed): a run on an empty input list returns Ok(()), whatever
\* the environment does, with the terminal never put in raw mode and no Sink
\* started.
C12_EmptyInputsExitClean ==
    ( disk = << >> /\ pc \in {"ret", "exit"} ) =>
        result = "ok" /\ ~raw /\ audio = {}

\* C13 (as claimed): a Tap with no timestamp recorded pushes nothing and
\* records the timestamp; a Tap with one recorded pushes exactly one sample
\* s, with s times the milliseconds since that timestamp equal to 60000, and
\* records the new timestamp; the State and the selected track are unchanged.
C13_TapPushesSample ==
    [][ Handles("Playing", "Tap") =>
          /\ pc' = "loop"
          /\ UNCHANGED << state, selected >>
          /\ IsSome(last_press_at')
          /\ IF last_press_at = None
             THEN pushed' = pushed /\ bpms' = bpms
             ELSE LET ms == Unwrap(last_press_at') - Unwrap(last_press_at)
                      s == pushed'[Len(pushed')]
                  IN  /\ pushed' = Append(pushed, s)
                      /\ bpms' = BpmsPush(bpms, s)
                      /\ ms # 0
                      /\ s # F64Inf
                      /\ s * ms = 60000 ]_vars

\* C14: while a track is selected the index is within 0..n-1; on more than
\* one track Down selects (i + 1) mod n and Up selects i - 1, or n - 1 from
\* 0; a successful set_bpm is followed by the selection of (i + 1) mod n,
\* for every n.
C14_IndexWraps ==
    /\ [](pc \in {"term", "loop", "assign"} => selected \in 0..(Len(inputs) - 1))
    /\ [][ /\ ( Handles("Playing", "Down") /\ Len(inputs) > 1 ) =>
                 selected' = (selected + 1) % Len(inputs)
           /\ ( Handles("Playing", "Up") /\ Len(inputs) > 1 ) =>
                 selected' = IF selected = 0 THEN Len(inputs) - 1 ELSE selected - 1
           /\ ( pc = "loop" /\ set_calls' # << >> /\ set_calls'[1].ok ) =>
                 selected' = (selected + 1) % Len(inputs) ]_vars

\* C14's case: Up on the first of three tracks has selected the last one,
\* which is playing.
C14_Witness ==
    /\ pc = "loop" /\ state = Playing /\ cmd.name = "Up"
    /\ Len(inputs) = 3 /\ selected = 2
    /\ player = Some([gen |-> 1, track |-> 2])

\* C15: Restart, Up and Down on more than one track, Yes, Enter in manual
\* entry and a direct Confirm with an average, unless they fail (main
\* returns), replace the Sink; when the replacement completes the estimator
\* is empty (avg() is None) and no timestamp is recorded; and a Tap with no
\* timestamp recorded pushes no sample.
C15_ResetAfterTransition ==
    [][ /\ ( /\ pc = "loop" /\ pc' # "ret"
             /\ \/ cmd'.name \in {"Restart", "Yes", "Enter"}
                \/ cmd'.name \in {"Up", "Down"} /\ Len(inputs) > 1
                \/ cmd'.name = "Confirm" /\ ~confirm /\ IsSome(BpmsAvg(bpms)) ) =>
               pc' = "assign"
        /\ pc = "assign" =>
               /\ pc' = "loop"
               /\ bpms'.size = 0
               /\ BpmsAvg(bpms') = None
               /\ pushed' = << >>
               /\ last_press_at' = None
        /\ ( Handles("Playing", "Tap") /\ last_press_at = None ) =>
               pushed' = pushed /\ bpms' = bpms ]_vars

\* C15's case: Restart on the second of three tracks has completed, with an
\* empty estimator and no timestamp.
C15_Witness ==
    /\ pc = "loop" /\ state = Playing /\ cmd.name = "Restart"
    /\ Len(inputs) = 3 /\ selected = 1
    /\ bpms = BpmsNew /\ last_press_at = None

\* C16: No in Finished and Esc or m in manual entry go to Playing with no
\* set_bpm call and with the selected track, the Tracks and files, the Sink,
\* the estimator and the timestamp unchanged; and no step that stays in the
\* dialog changes any of them, so they are what they were when it opened.
C16_AbandonKeepsAll ==
    [][ /\ ( Handles("Finished", "No") \/ Handles("Manual", "Cancel") ) =>
               /\ state' = Playing
               /\ pc' = "loop"
               /\ set_calls' = << >>
               /\ UNCHANGED << selected, inputs, disk, player, audio, bpms,
                               pushed, last_press_at, writes >>
        /\ ( /\ pc = "loop" /\ pc' = "loop"
             /\ state.tag \in {"Finished", "Manual"}
             /\ state'.tag = state.tag ) =>
               UNCHANGED << selected, inputs, disk, player, audio, bpms,
                            pushed, last_press_at, writes >> ]_vars

\* C16's case: No was answered on the second of three tracks, with a sample
\* in the estimator and a timestamp recorded.
C16_Witness ==
    /\ pc = "loop" /\ state = Playing /\ cmd.name = "No"
    /\ Len(inputs) = 3 /\ selected = 1
    /\ pushed # << >> /\ bpms.size > 0 /\ IsSome(last_press_at)

\* C17: a command whose set_bpm call fails makes that one call only, and main
\* returns the error with the selected track, the State, the Sink held and
\* the Sinks playing, and the file as they were; once main is returning no
\* further key is handled and no further set_bpm call or file change is made.
C17_WriteFailureFatal ==
    /\ [][ ( /\ pc = "loop"
             /\ \E j \in 1..Len(set_calls') : ~set_calls'[j].ok ) =>
               /\ Len(set_calls') = 1
               /\ pc' = "ret"
               /\ result' = "err"
               /\ UNCHANGED << selected, state, player, audio, disk, writes >>
       ]_vars
    /\ [][ ( pc \in {"ret", "exit"} ) =>
               /\ pc' = "exit"
               /\ audio' = {}
               /\ UNCHANGED << cmd, set_calls, disk, result, writes >>
       ]_vars

\* C17's case: the write of Yes failed and the run has ended with the error,
\* nothing written.
C17_Witness ==
    /\ pc = "exit" /\ result = "err" /\ cmd.name = "Yes"
    /\ Len(set_calls) = 1 /\ set_calls[1].io = "write_err" /\ ~set_calls[1].ok
    /\ writes = 0

\* C18: whenever the loop waits for a key the selected index is within
\* 0..n-1, a Sink is held, it plays the selected track, and it is the only
\* Sink playing.
C18_PlayingSelected ==
    pc = "loop" =>
        /\ selected \in 0..(Len(inputs) - 1)
        /\ IsSome(player)
        /\ Unwrap(player).track = selected
        /\ audio = { Unwrap(player) }

\* C18's case: after Down on the first of three tracks the loop waits with
\* the second track selected and playing.
C18_Witness ==
    /\ pc = "loop" /\ cmd.name = "Down"
    /\ Len(inputs) = 3 /\ selected = 1
    /\ audio = { [gen |-> 1, track |-> 1] }

\* C19: a step of the loop that calls set_bpm calls it once, on the selected
\* track, and it is a direct Confirm (with the average), Yes (with the
\* candidate of Finished) or Enter in manual entry (with the value typed);
\* the other Tracks and files are unchanged and on success the Track and its
\* file hold the value.  Every other step of the session leaves every Track
\* and file unchanged.
C19_WritesOnlyOnConfirm ==
    [][ ( pc \in {"loop", "assign"} ) =>
          IF pc = "loop" /\ set_calls' # << >>
          THEN /\ Len(set_calls') = 1
               /\ set_calls'[1].idx = selected
               /\ \/ /\ cmd'.name = "Confirm" /\ state = Playing /\ ~confirm
                     /\ Some(set_calls'[1].bpm) = BpmsAvg(bpms)
                  \/ /\ cmd'.name = "Yes" /\ state.tag = "Finished"
                     /\ set_calls'[1].bpm = state.bpm
                  \/ /\ cmd'.name = "Enter" /\ state.tag = "Manual"
                     /\ set_calls'[1].bpm = state.manual_bpm
               /\ \A i \in 1..Len(inputs) :
                     i # selected + 1 => inputs'[i] = inputs[i] /\ disk'[i] = disk[i]
               /\ set_calls'[1].ok =>
                     /\ FieldBpm(disk'[selected + 1]) = Some(set_calls'[1].bpm)
                     /\ inputs'[selected + 1].bpm = Some(set_calls'[1].bpm)
          ELSE inputs' = inputs /\ disk' = disk ]_vars

\* C19's case: Enter in manual entry has written 128 to the first of three
\* tracks, the other two as they were, and the second track is selected.
C19_Witness ==
    /\ pc = "loop" /\ cmd.name = "Enter"
    /\ Len(inputs) = 3 /\ selected = 1
    /\ FieldBpm(disk[1]) = Some(U32(128))
    /\ disk[2] = FlacJunk /\ disk[3] = Mp3NoField
    /\ inputs[2].bpm = None /\ inputs[3].bpm = None

\* C20 (as claimed): every sample in the estimator is finite and greater
\* than 0.
C20_SamplesFinitePositive ==
    \A i \in 1..Len(pushed) : pushed[i] # F64Inf /\ pushed[i] > 0

====
